---- MODULE Spec2Model ----
(***************************************************************************)
(* Car-rental booking backend: the booking and car services over the two   *)
(* JSON file stores.                                                       *)
(*                                                                         *)
(* The state is what the files hold (the lists, in file order), the value  *)
(* of date.today() and the ids already drawn.  Every service method is an  *)
(* operator from the state and the arguments to its outcome: what it       *)
(* raises or returns and the state it leaves.  Every request is an action  *)
(* that applies the method to the current state.                           *)
(***************************************************************************)
EXTENDS Integers, Sequences, FiniteSets, TLC

\* ------------------------------------------------------------------ bounds
MaxCars == 2        \* cars ever created (fresh uuid4 ids 1..MaxCars)
MaxBookings == 2    \* bookings ever stored (fresh uuid4 ids 1..MaxBookings)
MaxDate == 3        \* calendar days 0..MaxDate
MaxToday == 1       \* date.today() moves over 0..MaxToday
MaxStamp == 1       \* instants 1..MaxStamp that datetime.utcnow() returns to a request
MaxProcs == 2       \* requests served at the same time (threads, workers)

Dates == 0..MaxDate
CarIds == 1..MaxCars
BookingIds == 1..MaxBookings
Stamps == 1..MaxStamp
Procs == 1..MaxProcs
Rates == {30, 50}
RateInputs == Rates \cup {0}
Customers == {[name |-> "ann", email |-> "ann@x.org"]}

\* ------------------------------------------------------------------ entities
CarStatus == {"available", "rented", "maintenance"}
BookingStatus == {"pending", "confirmed", "cancelled", "completed"}

\* The messages of the failures the services raise, and the other outcomes.
CarNotFound == "Car not found"
NotAvailable == "Car is not available for the selected dates"
BookingNotFound == "Booking not found"
ValidationError == "ValidationError"
Ok == "ok"

VARIABLES
    cars,        \* cars.json: sequence of car records, in file order
    bookings,    \* bookings.json: sequence of booking records, in file order
    today,       \* date.today()
    nextCarId,   \* the next fresh car id (uuid4)
    ov,          \* an application of _dates_overlap: its arguments and result
    rq,          \* the requests served step by step: per process, where it is
                 \* in its method and what it holds in its local variables
    file         \* bookings.json as bytes: absent, the JSON text of bookings,
                 \* or bytes that are no JSON text (then bookings is <<>>)

vars == <<cars, bookings, today, nextCarId, ov, rq, file>>

\* The state a service method runs against.
State == [cars |-> cars, bookings |-> bookings, today |-> today,
          nextCarId |-> nextCarId]

\* ------------------------------------------------------------------ Booking entity
\* A slip in the entity: validate_start_date is missing, a start date in the past
\* is accepted.
Mut_Booking_valid_any_start(b, day) ==
    /\ b.end_date > b.start_date
    /\ b.total_cost > 0

\* Booking(...): the field constraints and the two field validators, applied on
\* every construction (a new booking and a record loaded from the file alike).
Booking_valid(b, day) ==
    /\ b.start_date >= day
    /\ b.end_date > b.start_date
    /\ b.total_cost > 0

\* Car(...): daily_rate must be positive.  Of the fields of a car the model
\* keeps id, daily_rate, status and updated_at (0 for None).
Car_valid(c) == c.daily_rate > 0

\* ------------------------------------------------------------------ overlap
\* A slip in the predicate: only a request that starts inside the other range counts.
Mut_dates_overlap_start_inside(start1, end1, start2, end2) ==
    start1 >= start2 /\ start1 < end2

\* A slip in the predicate: closed instead of half-open ranges.
Mut_dates_overlap_closed(start1, end1, start2, end2) ==
    start1 <= end2 /\ end1 >= start2

\* BookingService._dates_overlap
_dates_overlap(start1, end1, start2, end2) == start1 < end2 /\ end1 > start2

\* JsonBookingRepository._dates_overlap
repo_dates_overlap(start1, end1, start2, end2) == start1 < end2 /\ end1 > start2

\* ------------------------------------------------------------------ stores
\* Index of the first record of `data` with the given id, 0 when there is none.
IndexOfId(data, id) ==
    IF \E i \in 1..Len(data) : data[i].id = id
    THEN CHOOSE i \in 1..Len(data) :
            /\ data[i].id = id
            /\ \A j \in 1..(i - 1) : data[j].id # id
    ELSE 0

\* A slip in the lookup: the id is not compared, the first record is returned.
Mut_car_find_by_id_first(data, car_id) ==
    IF data = <<>> THEN <<>> ELSE <<data[1]>>

\* JsonCarRepository.find_by_id: <<car>> or <<>> (None).
car_find_by_id(data, car_id) ==
    LET i == IndexOfId(data, car_id) IN IF i = 0 THEN <<>> ELSE <<data[i]>>

\* JsonBookingRepository.find_by_id: the first record with the id is rebuilt as a
\* Booking, which validates it again.
booking_find_by_id(data, day, booking_id) ==
    LET i == IndexOfId(data, booking_id) IN
    IF i = 0 THEN [err |-> FALSE, found |-> <<>>]
    ELSE IF ~Booking_valid(data[i], day) THEN [err |-> TRUE, found |-> <<>>]
    ELSE [err |-> FALSE, found |-> <<data[i]>>]

\* JsonBookingRepository.find_by_car_and_date_range: every record of the car is
\* rebuilt as a Booking (and validated) before its dates are compared.
find_by_car_and_date_range(data, day, car_id, start_date, end_date) ==
    IF \E i \in 1..Len(data) : data[i].car_id = car_id /\ ~Booking_valid(data[i], day)
    THEN [err |-> TRUE, found |-> <<>>]
    ELSE [err |-> FALSE,
          found |-> SelectSeq(data, LAMBDA b :
                        /\ b.car_id = car_id
                        /\ repo_dates_overlap(start_date, end_date,
                                              b.start_date, b.end_date))]

\* ------------------------------------------------------------------ availability
Active(b) == b.status \in {"confirmed", "pending"}

\* A slip in the status filter: only confirmed bookings block.
Mut_is_car_available_confirmed_only(data, day, car_id, start_date, end_date) ==
    LET q == find_by_car_and_date_range(data, day, car_id, start_date, end_date) IN
    IF q.err THEN ValidationError
    ELSE IF \E i \in 1..Len(q.found) :
               /\ q.found[i].status = "confirmed"
               /\ _dates_overlap(start_date, end_date,
                                 q.found[i].start_date, q.found[i].end_date)
         THEN "False"
         ELSE "True"

\* A slip in the range: the end date is taken as a rented day (closed ranges).
Mut_is_car_available_inclusive(data, day, car_id, start_date, end_date) ==
    LET q == find_by_car_and_date_range(data, day, car_id, start_date, end_date + 1) IN
    IF q.err THEN ValidationError
    ELSE IF \E i \in 1..Len(q.found) :
               /\ Active(q.found[i])
               /\ Mut_dates_overlap_closed(start_date, end_date,
                                           q.found[i].start_date, q.found[i].end_date)
         THEN "False"
         ELSE "True"

\* BookingService._is_car_available: "True", "False", or the ValidationError the
\* store's range query raises.
_is_car_available(data, day, car_id, start_date, end_date) ==
    LET q == find_by_car_and_date_range(data, day, car_id, start_date, end_date) IN
    IF q.err THEN ValidationError
    ELSE IF \E i \in 1..Len(q.found) :
               /\ Active(q.found[i])
               /\ _dates_overlap(start_date, end_date,
                                 q.found[i].start_date, q.found[i].end_date)
         THEN "False"
         ELSE "True"

\* ------------------------------------------------------------------ booking service
\* A method's outcome: what it raised or returned (res), the entity it returned
\* (ret, <<>> when none) and the state it left (st).
Outcome(res, ret, st) == [res |-> res, ret |-> ret, st |-> st]

\* A slip in the day count: both the first and the last day are charged.
Mut_total_cost_inclusive(car, start_date, end_date) ==
    (end_date - start_date + 1) * car.daily_rate

\* total_cost = days * car.daily_rate
total_cost(car, start_date, end_date) == (end_date - start_date) * car.daily_rate

\* The Booking that create_booking builds; its id is a fresh uuid4.
NewBooking(st, car, customer, start_date, end_date) ==
    [id |-> Len(st.bookings) + 1, car_id |-> car.id,
     customer_name |-> customer.name, customer_email |-> customer.email,
     start_date |-> start_date, end_date |-> end_date,
     total_cost |-> total_cost(car, start_date, end_date),
     status |-> "pending"]

\* A slip in save: the file is written without the records read from it.
Mut_booking_save_overwrite(st, booking) == [st EXCEPT !.bookings = <<booking>>]

\* JsonBookingRepository.save
booking_save(st, booking) == [st EXCEPT !.bookings = Append(@, booking)]

\* A slip in the service: the booking is built and saved without the
\* availability check.
Mut_create_booking_of_car_unchecked(st, car, customer, start_date, end_date) ==
    LET booking == NewBooking(st, car, customer, start_date, end_date) IN
    IF ~Booking_valid(booking, st.today)
    THEN Outcome(ValidationError, <<>>, st)
    ELSE Outcome(Ok, <<booking>>, booking_save(st, booking))

\* BookingService.create_booking once the car is found: the availability check,
\* the cost, the Booking and the save.
create_booking_of_car(st, car, customer, start_date, end_date) ==
    LET avail == _is_car_available(st.bookings, st.today, car.id,
                                   start_date, end_date) IN
    IF avail = ValidationError THEN Outcome(ValidationError, <<>>, st)
    ELSE IF avail = "False" THEN Outcome(NotAvailable, <<>>, st)
    ELSE LET booking == NewBooking(st, car, customer, start_date, end_date) IN
         IF ~Booking_valid(booking, st.today)
         THEN Outcome(ValidationError, <<>>, st)
         ELSE Outcome(Ok, <<booking>>, booking_save(st, booking))

\* A slip in the service: only a car in available status can be booked.
Mut_create_booking_available_only(st, car_id, customer, start_date, end_date) ==
    LET car == car_find_by_id(st.cars, car_id) IN
    IF car = <<>> THEN Outcome(CarNotFound, <<>>, st)
    ELSE IF car[1].status # "available" THEN Outcome(NotAvailable, <<>>, st)
    ELSE create_booking_of_car(st, car[1], customer, start_date, end_date)

\* BookingService.create_booking
create_booking(st, car_id, customer, start_date, end_date) ==
    LET car == car_find_by_id(st.cars, car_id) IN
    IF car = <<>> THEN Outcome(CarNotFound, <<>>, st)
    ELSE create_booking_of_car(st, car[1], customer, start_date, end_date)

\* BookingService.get_booking
get_booking(st, booking_id) ==
    LET g == booking_find_by_id(st.bookings, st.today, booking_id) IN
    IF g.err THEN Outcome(ValidationError, <<>>, st)
    ELSE IF g.found = <<>> THEN Outcome(BookingNotFound, <<>>, st)
    ELSE Outcome(Ok, g.found, st)

\* A slip in update: the new record is appended and the old one left in place.
Mut_booking_update_append(st, booking) ==
    LET i == IndexOfId(st.bookings, booking.id) IN
    IF i = 0 THEN st ELSE [st EXCEPT !.bookings = Append(@, booking)]

\* JsonBookingRepository.update: the first record with the booking's id is replaced.
booking_update(st, booking) ==
    LET i == IndexOfId(st.bookings, booking.id) IN
    IF i = 0 THEN st ELSE [st EXCEPT !.bookings[i] = booking]

\* JsonBookingRepository.delete: every record with the id is dropped; True iff
\* the list got shorter.  No service method and no route calls it.
booking_delete(st, booking_id) ==
    LET kept == SelectSeq(st.bookings, LAMBDA b : b.id # booking_id) IN
    IF Len(kept) < Len(st.bookings)
    THEN Outcome("True", <<>>, [st EXCEPT !.bookings = kept])
    ELSE Outcome("False", <<>>, st)

\* A slip in cancel: the status is set on the loaded object and never written.
Mut_cancel_booking_unsaved(st, booking_id) ==
    LET g == get_booking(st, booking_id) IN
    IF g.res # Ok THEN g
    ELSE Outcome(Ok, <<[g.ret[1] EXCEPT !.status = "cancelled"]>>, st)

\* A slip in cancel: the status set is completed instead of cancelled.
Mut_cancel_booking_completed(st, booking_id) ==
    LET g == get_booking(st, booking_id) IN
    IF g.res # Ok THEN g
    ELSE LET booking == [g.ret[1] EXCEPT !.status = "completed"] IN
         Outcome(Ok, <<booking>>, booking_update(st, booking))

\* BookingService.cancel_booking
cancel_booking(st, booking_id) ==
    LET g == get_booking(st, booking_id) IN
    IF g.res # Ok THEN g
    ELSE LET booking == [g.ret[1] EXCEPT !.status = "cancelled"] IN
         Outcome(Ok, <<booking>>, booking_update(st, booking))

\* BookingService.list_available_cars_by_date: the cars in available status, in
\* file order, each put to the availability check; the call fails if a check
\* fails, and returns the cars that passed (ret is the list).
list_available_cars_by_date(st, start_date, end_date) ==
    LET available == SelectSeq(st.cars, LAMBDA car : car.status = "available") IN
    IF \E i \in 1..Len(available) :
          _is_car_available(st.bookings, st.today, available[i].id,
                            start_date, end_date) = ValidationError
    THEN Outcome(ValidationError, <<>>, st)
    ELSE Outcome(Ok, SelectSeq(available, LAMBDA car :
                        _is_car_available(st.bookings, st.today, car.id,
                                          start_date, end_date) = "True"), st)

\* ------------------------------------------------------------------ car service
\* CarService.create_car
create_car(st, daily_rate) ==
    LET car == [id |-> st.nextCarId, daily_rate |-> daily_rate,
                status |-> "available", updated_at |-> 0] IN
    IF ~Car_valid(car) THEN Outcome(ValidationError, <<>>, st)
    ELSE Outcome(Ok, <<car>>, [st EXCEPT !.cars = Append(@, car),
                                         !.nextCarId = @ + 1])

\* CarService.get_car: <<car>> or <<>> (None).
get_car(st, car_id) ==
    LET car == car_find_by_id(st.cars, car_id) IN
    Outcome(IF car = <<>> THEN "None" ELSE Ok, car, st)

\* CarService.list_all_cars (ret is the list).
list_all_cars(st) == Outcome(Ok, st.cars, st)

\* CarService.list_available_cars (ret is the list).
list_available_cars(st) ==
    Outcome(Ok, SelectSeq(st.cars, LAMBDA car : car.status = "available"), st)

\* A slip in the service: a car taken out of available status has its active
\* bookings cancelled.
Mut_update_car_status_cancels(st, car_id, status, now) ==
    LET i == IndexOfId(st.cars, car_id) IN
    IF i = 0 THEN Outcome("None", <<>>, st)
    ELSE LET car == [st.cars[i] EXCEPT !.status = status, !.updated_at = now] IN
         Outcome(Ok, <<car>>,
                 [st EXCEPT !.cars[i] = car,
                            !.bookings = [j \in 1..Len(st.bookings) |->
                                IF /\ status # "available"
                                   /\ st.bookings[j].car_id = car_id
                                   /\ Active(st.bookings[j])
                                THEN [st.bookings[j] EXCEPT !.status = "cancelled"]
                                ELSE st.bookings[j]]])

\* CarService.update_car_status; now is what datetime.utcnow() returns to the call.
update_car_status(st, car_id, status, now) ==
    LET i == IndexOfId(st.cars, car_id) IN
    IF i = 0 THEN Outcome("None", <<>>, st)
    ELSE LET car == [st.cars[i] EXCEPT !.status = status, !.updated_at = now] IN
         Outcome(Ok, <<car>>, [st EXCEPT !.cars[i] = car])

\* A slip in delete: the bookings of the car are removed with it.
Mut_delete_car_cascade(st, car_id) ==
    LET kept == SelectSeq(st.cars, LAMBDA c : c.id # car_id) IN
    IF Len(kept) < Len(st.cars)
    THEN Outcome("True", <<>>,
                 [st EXCEPT !.cars = kept,
                            !.bookings = SelectSeq(@, LAMBDA b : b.car_id # car_id)])
    ELSE Outcome("False", <<>>, st)

\* CarService.delete_car
delete_car(st, car_id) ==
    LET kept == SelectSeq(st.cars, LAMBDA c : c.id # car_id) IN
    IF Len(kept) < Len(st.cars)
    THEN Outcome("True", <<>>, [st EXCEPT !.cars = kept])
    ELSE Outcome("False", <<>>, st)

\* ------------------------------------------------------------------ routes
\* The response status codes of the routes.
HTTP_200_OK == 200
HTTP_201_CREATED == 201
HTTP_204_NO_CONTENT == 204
HTTP_400_BAD_REQUEST == 400
HTTP_404_NOT_FOUND == 404

\* What a route answers: the status code and the state the service call left.
Response(status, st) == [status |-> status, st |-> st]

\* A slip in the route: "Car not found" is answered with 404.
Mut_route_create_booking_404(st, car_id, customer, start_date, end_date) ==
    LET r == create_booking(st, car_id, customer, start_date, end_date) IN
    Response(IF r.res = Ok THEN HTTP_201_CREATED
             ELSE IF r.res = CarNotFound THEN HTTP_404_NOT_FOUND
             ELSE HTTP_400_BAD_REQUEST, r.st)

\* POST /bookings: every ValueError of the service, the pydantic ValidationError
\* included, is answered with 400.
route_create_booking(st, car_id, customer, start_date, end_date) ==
    LET r == create_booking(st, car_id, customer, start_date, end_date) IN
    Response(IF r.res = Ok THEN HTTP_201_CREATED ELSE HTTP_400_BAD_REQUEST, r.st)

\* GET /bookings/{booking_id}: every ValueError is answered with 404.
route_get_booking(st, booking_id) ==
    LET r == get_booking(st, booking_id) IN
    Response(IF r.res = Ok THEN HTTP_200_OK ELSE HTTP_404_NOT_FOUND, r.st)

\* PATCH /bookings/{booking_id}/cancel: every ValueError is answered with 404.
route_cancel_booking(st, booking_id) ==
    LET r == cancel_booking(st, booking_id) IN
    Response(IF r.res = Ok THEN HTTP_200_OK ELSE HTTP_404_NOT_FOUND, r.st)

\* GET /cars/{car_id}
route_get_car(st, car_id) ==
    LET r == get_car(st, car_id) IN
    Response(IF r.ret = <<>> THEN HTTP_404_NOT_FOUND ELSE HTTP_200_OK, r.st)

\* PATCH /cars/{car_id}/status
route_update_car_status(st, car_id, status, now) ==
    LET r == update_car_status(st, car_id, status, now) IN
    Response(IF r.ret = <<>> THEN HTTP_404_NOT_FOUND ELSE HTTP_200_OK, r.st)

\* DELETE /cars/{car_id}
route_delete_car(st, car_id) ==
    LET r == delete_car(st, car_id) IN
    Response(IF r.res = "False" THEN HTTP_404_NOT_FOUND ELSE HTTP_204_NO_CONTENT, r.st)

\* ------------------------------------------------------------------ requests
\* The state after a call is the state its outcome left.
Becomes(st) ==
    /\ cars' = st.cars
    /\ bookings' = st.bookings
    /\ today' = st.today
    /\ nextCarId' = st.nextCarId
    /\ UNCHANGED <<ov, rq, file>>

CreateCar(daily_rate) ==
    /\ nextCarId <= MaxCars
    /\ Becomes(create_car(State, daily_rate).st)

UpdateCarStatus(car_id, status, now) ==
    Becomes(update_car_status(State, car_id, status, now).st)

DeleteCar(car_id) ==
    Becomes(delete_car(State, car_id).st)

CreateBooking(car_id, customer, start_date, end_date) ==
    LET r == create_booking(State, car_id, customer, start_date, end_date) IN
    /\ r.res = Ok => Len(bookings) < MaxBookings
    /\ Becomes(r.st)

CancelBooking(booking_id) ==
    Becomes(cancel_booking(State, booking_id).st)

\* Midnight: date.today() advances.
Tick ==
    /\ today < MaxToday
    /\ today' = today + 1
    /\ UNCHANGED <<cars, bookings, nextCarId, ov, rq, file>>

NoOverlapCall == [start1 |-> 0, end1 |-> 0, start2 |-> 0, end2 |-> 0,
                  called |-> FALSE, result |-> FALSE]

\* A process that serves no request.
NoRequest == [pc |-> "idle", op |-> "", car_id |-> 0, customer |-> <<>>,
              start_date |-> 0, end_date |-> 0, booking_id |-> 0, car |-> <<>>,
              booking |-> <<>>, data |-> <<>>, res |-> ""]

\* bookings.json holds the JSON text of bookings / does not exist.
JsonFile == [kind |-> "json", size |-> 0]
NoFile == [kind |-> "absent", size |-> 0]

\* Requests served one at a time, each to its end: every request that touches
\* bookings.json builds its repository first (_ensure_file), so each meets a
\* file that exists and holds a complete list.
Init ==
    /\ cars = <<>>
    /\ bookings = <<>>
    /\ today = 0
    /\ nextCarId = 1
    /\ ov = NoOverlapCall
    /\ rq = [p \in Procs |-> NoRequest]
    /\ file = JsonFile

Next ==
    \/ \E r \in RateInputs : CreateCar(r)
    \/ \E c \in CarIds, s \in CarStatus, now \in Stamps : UpdateCarStatus(c, s, now)
    \/ \E c \in CarIds : DeleteCar(c)
    \/ \E c \in CarIds, cu \in Customers, s \in Dates, e \in Dates :
          CreateBooking(c, cu, s, e)
    \/ \E b \in BookingIds : CancelBooking(b)
    \/ Tick

Spec == Init /\ [][Next]_vars

\* ------------------------------------------------------------------ the overlap predicate alone
\* _dates_overlap applied to any four dates (the method validates none of them).
InitOverlap ==
    /\ cars = <<>>
    /\ bookings = <<>>
    /\ today = 0
    /\ nextCarId = 1
    /\ ov \in [start1 : Dates, end1 : Dates, start2 : Dates, end2 : Dates,
               called : {FALSE}, result : {FALSE}]
    /\ rq = [p \in Procs |-> NoRequest]
    /\ file = JsonFile

CallOverlap ==
    /\ ~ov.called
    /\ ov' = [ov EXCEPT !.called = TRUE,
                        !.result = _dates_overlap(ov.start1, ov.end1,
                                                  ov.start2, ov.end2)]
    /\ UNCHANGED <<cars, bookings, today, nextCarId, rq, file>>

NextOverlap == CallOverlap

SpecOverlap == InitOverlap /\ [][NextOverlap]_vars

\* ------------------------------------------------------------------ requests side by side
\* The routes are plain functions, which the server runs on worker threads, and
\* every request gets repositories of its own over the same two files, with no
\* lock: the steps of create_booking and cancel_booking requests interleave.  A
\* step is a stretch of the method up to its next access to a file: testing that
\* a file exists, reading it, opening it for writing (which empties it), and
\* writing the text at its close are each one step.

\* A slip in the id: it is derived from nothing, every booking gets the same.
Mut_uuid4_repeat(used) == 1

\* uuid4(): an id that no booking has (the smallest unused number).
uuid4(used) ==
    CHOOSE i \in 1..(Cardinality(used) + 1) :
        i \notin used /\ \A j \in 1..(i - 1) : j \in used

\* The ids of the bookings stored or built so far.
UsedIds ==
    {bookings[i].id : i \in 1..Len(bookings)}
        \cup {rq[p].booking[1].id : p \in {q \in Procs : rq[q].booking # <<>>}}

Returns(p, res) ==
    rq' = [rq EXCEPT ![p] = [NoRequest EXCEPT !.pc = "done", !.op = rq[p].op,
                                              !.res = res,
                                              !.booking = rq[p].booking]]

\* ---- bookings.json as bytes
\* json.dump(data, f, indent=2, ...) of one booking record: the characters that
\* are the same for every record of the customer of Customers (keys, uuids, ISO
\* dates, null), then those of created_at, of total_cost (a float: 30.0, 100.0)
\* and of status.
RecordFixed == 319

\* The microsecond of datetime.utcnow(): 0, or one value for all the others.
Microseconds == {0, 123456}

\* The booking with its created_at.  Of the fields of a booking the requests
\* served one at a time keep the eight of NewBooking; the requests side by side
\* also keep the microsecond of created_at, on which the length of the record's
\* text depends.
Created(b, microsecond) ==
    [id |-> b.id, car_id |-> b.car_id,
     customer_name |-> b.customer_name, customer_email |-> b.customer_email,
     start_date |-> b.start_date, end_date |-> b.end_date,
     total_cost |-> b.total_cost, status |-> b.status,
     created_at |-> microsecond]

\* created_at is written with datetime.isoformat(): 2031-03-10T08:00:00.123456,
\* and without the fraction when microsecond is 0.
CreatedAtChars(microsecond) == IF microsecond = 0 THEN 19 ELSE 26

CostChars(cost) ==
    IF cost < 10 THEN 3
    ELSE IF cost < 100 THEN 4
    ELSE IF cost < 1000 THEN 5 ELSE 6

StatusChars(status) == IF status = "pending" THEN 7 ELSE 9

RecordBytes(b) ==
    RecordFixed + CreatedAtChars(b.created_at) + CostChars(b.total_cost)
        + StatusChars(b.status)

RECURSIVE SumBytes(_)
SumBytes(data) ==
    IF data = <<>> THEN 0 ELSE RecordBytes(Head(data)) + SumBytes(Tail(data))

\* The length of the text json.dump writes for the list: "[]", or the brackets
\* with their line breaks, the records, and ",\n" between two records.
Bytes(data) ==
    IF data = <<>> THEN 2 ELSE 4 + SumBytes(data) + 2 * (Len(data) - 1)

\* The length of bookings.json now.
FileSize == IF file.kind = "json" THEN Bytes(bookings) ELSE file.size

\* _read_data: open(..., "r") and json.load succeed iff the file holds a JSON
\* text; on an empty file or on a text followed by other bytes json.load raises
\* JSONDecodeError, a ValueError.
Readable == file.kind = "json"

JSONDecodeError == "JSONDecodeError"

\* _write_data, open(self._file_path, "w"): the file is created or emptied.
OpenW ==
    /\ file' = [kind |-> "torn", size |-> 0]
    /\ bookings' = <<>>

\* _write_data, json.dump and the close of the file: the text (one buffer, for
\* lists of this size) is written from offset 0.  It replaces the file when it is
\* at least as long as what another writer has put there since this one opened
\* the file; otherwise the tail of the other text stays behind it.
Dump(data) ==
    IF Bytes(data) >= FileSize
    THEN file' = JsonFile /\ bookings' = data
    ELSE file' = [kind |-> "torn", size |-> FileSize] /\ bookings' = <<>>

\* ---- the requests
\* The request arrives: create_booking is called with its arguments.
\* get_booking_service builds the repositories; JsonBookingRepository._ensure_file
\* tests whether bookings.json exists (cars.json exists: the cars are stored).
Call(p, car_id, customer, start_date, end_date) ==
    /\ rq[p].pc = "idle"
    /\ rq' = [rq EXCEPT ![p] = [NoRequest EXCEPT
                  !.pc = IF file.kind = "absent" THEN "ensure" ELSE "find_car",
                  !.op = "create_booking",
                  !.car_id = car_id, !.customer = <<customer>>,
                  !.start_date = start_date, !.end_date = end_date]]
    /\ UNCHANGED <<cars, bookings, today, nextCarId, ov, file>>

\* _ensure_file, self._write_data([]): the file is opened for writing.
EnsureOpen(p) ==
    /\ rq[p].pc = "ensure"
    /\ OpenW
    /\ rq' = [rq EXCEPT ![p].pc = "ensure_dump"]
    /\ UNCHANGED <<cars, today, nextCarId, ov>>

\* _ensure_file, self._write_data([]): [] is written; the service method starts.
EnsureDump(p) ==
    /\ rq[p].pc = "ensure_dump"
    /\ Dump(<<>>)
    /\ rq' = [rq EXCEPT ![p].pc = IF rq[p].op = "create_booking"
                                  THEN "find_car" ELSE "find_booking"]
    /\ UNCHANGED <<cars, today, nextCarId, ov>>

\* car = self._car_repository.find_by_id(car_id): cars.json is read.
FindCar(p) ==
    /\ rq[p].pc = "find_car"
    /\ LET car == car_find_by_id(cars, rq[p].car_id) IN
       IF car = <<>> THEN Returns(p, CarNotFound)
       ELSE rq' = [rq EXCEPT ![p].pc = "check", ![p].car = car]
    /\ UNCHANGED <<cars, bookings, today, nextCarId, ov, file>>

\* self._is_car_available(...): bookings.json is read; then the cost and the
\* Booking, which touch no file.  The Booking takes its id from uuid4() and its
\* created_at from datetime.utcnow(), on a whole second or not.
CheckAvailable(p) ==
    /\ rq[p].pc = "check"
    /\ LET r == rq[p]
           avail == _is_car_available(bookings, today, r.car_id,
                                      r.start_date, r.end_date)
           booking == [NewBooking(State, r.car[1], r.customer[1],
                                  r.start_date, r.end_date)
                          EXCEPT !.id = uuid4(UsedIds)] IN
       IF ~Readable THEN Returns(p, JSONDecodeError)
       ELSE IF avail = ValidationError THEN Returns(p, ValidationError)
       ELSE IF avail = "False" THEN Returns(p, NotAvailable)
       ELSE IF ~Booking_valid(booking, today) THEN Returns(p, ValidationError)
       ELSE \E microsecond \in Microseconds :
               rq' = [rq EXCEPT ![p].pc = "save",
                                ![p].booking = <<Created(booking, microsecond)>>]
    /\ UNCHANGED <<cars, bookings, today, nextCarId, ov, file>>

\* JsonBookingRepository.save, data = self._read_data(): bookings.json is read.
SaveRead(p) ==
    /\ rq[p].pc = "save"
    /\ IF ~Readable THEN Returns(p, JSONDecodeError)
       ELSE rq' = [rq EXCEPT ![p].pc = "write", ![p].data = bookings]
    /\ UNCHANGED <<cars, bookings, today, nextCarId, ov, file>>

\* JsonBookingRepository.save, data.append(...) and self._write_data(data): the
\* file is opened for writing.
SaveOpen(p) ==
    /\ rq[p].pc = "write"
    /\ OpenW
    /\ rq' = [rq EXCEPT ![p].pc = "dump"]
    /\ UNCHANGED <<cars, today, nextCarId, ov>>

\* JsonBookingRepository.save, the rest of _write_data: what this process read
\* plus its booking is written; the booking is returned.
SaveDump(p) ==
    /\ rq[p].pc = "dump"
    /\ Dump(Append(rq[p].data, rq[p].booking[1]))
    /\ Returns(p, Ok)
    /\ UNCHANGED <<cars, today, nextCarId, ov>>

\* The request arrives: cancel_booking is called with the booking id; the
\* repositories are built as for create_booking.
CallCancel(p, booking_id) ==
    /\ rq[p].pc = "idle"
    /\ rq' = [rq EXCEPT ![p] = [NoRequest EXCEPT
                  !.pc = IF file.kind = "absent" THEN "ensure" ELSE "find_booking",
                  !.op = "cancel_booking", !.booking_id = booking_id]]
    /\ UNCHANGED <<cars, bookings, today, nextCarId, ov, file>>

\* booking = self.get_booking(booking_id): bookings.json is read; then the
\* status is set on the loaded booking.
FindBooking(p) ==
    /\ rq[p].pc = "find_booking"
    /\ LET g == get_booking(State, rq[p].booking_id) IN
       IF ~Readable THEN Returns(p, JSONDecodeError)
       ELSE IF g.res # Ok THEN Returns(p, g.res)
       ELSE rq' = [rq EXCEPT ![p].pc = "update",
                             ![p].booking = <<[g.ret[1] EXCEPT !.status = "cancelled"]>>]
    /\ UNCHANGED <<cars, bookings, today, nextCarId, ov, file>>

\* JsonBookingRepository.update, data = self._read_data(): bookings.json is read.
UpdateRead(p) ==
    /\ rq[p].pc = "update"
    /\ IF ~Readable THEN Returns(p, JSONDecodeError)
       ELSE rq' = [rq EXCEPT ![p].pc = "update_write", ![p].data = bookings]
    /\ UNCHANGED <<cars, bookings, today, nextCarId, ov, file>>

\* JsonBookingRepository.update, the loop: when a record of what this process
\* read has the id, the file is opened for writing; None, and no write, when
\* none has.
UpdateOpen(p) ==
    /\ rq[p].pc = "update_write"
    /\ IF IndexOfId(rq[p].data, rq[p].booking[1].id) = 0
       THEN Returns(p, "None") /\ UNCHANGED <<bookings, file>>
       ELSE OpenW /\ rq' = [rq EXCEPT ![p].pc = "update_dump"]
    /\ UNCHANGED <<cars, today, nextCarId, ov>>

\* JsonBookingRepository.update, the rest of _write_data: what this process read
\* with the first record of the id replaced is written; the booking is returned.
UpdateDump(p) ==
    /\ rq[p].pc = "update_dump"
    /\ LET i == IndexOfId(rq[p].data, rq[p].booking[1].id) IN
       Dump([rq[p].data EXCEPT ![i] = rq[p].booking[1]])
    /\ Returns(p, Ok)
    /\ UNCHANGED <<cars, today, nextCarId, ov>>

\* The stores after construction.
NoStores == [cars |-> <<>>, bookings |-> <<>>, today |-> 0, nextCarId |-> 1]

\* The stores the requests run against: one or two cars, as create_car stored
\* them (the car requests touch cars.json only), and either no bookings.json yet
\* or one booking of the first car, as create_booking stored it.
InitRace ==
    /\ \E r1 \in {create_car(NoStores, 50)} :
       \E r2 \in {r1, create_car(r1.st, 30)} :
       \E r3 \in {r2, create_booking(r2.st, 1, CHOOSE cu \in Customers : TRUE, 0, 2)} :
          /\ cars = r3.st.cars
          /\ nextCarId = r3.st.nextCarId
          /\ \E microsecond \in Microseconds :
                bookings = [i \in 1..Len(r3.st.bookings) |->
                               Created(r3.st.bookings[i], microsecond)]
          /\ file = IF r3.st.bookings = <<>> THEN NoFile ELSE JsonFile
    /\ today = 0
    /\ ov = NoOverlapCall
    /\ rq = [p \in Procs |-> NoRequest]

NextRace ==
    \E p \in Procs :
        \/ \E c \in CarIds, cu \in Customers, s \in Dates, e \in Dates :
              Call(p, c, cu, s, e)
        \/ EnsureOpen(p)
        \/ EnsureDump(p)
        \/ FindCar(p)
        \/ CheckAvailable(p)
        \/ SaveRead(p)
        \/ SaveOpen(p)
        \/ SaveDump(p)
        \/ \E b \in BookingIds : CallCancel(p, b)
        \/ FindBooking(p)
        \/ UpdateRead(p)
        \/ UpdateOpen(p)
        \/ UpdateDump(p)

SpecRace == InitRace /\ [][NextRace]_vars

\* ------------------------------------------------------------------ the booking store alone
\* The port's delete, which the application never reaches, applied to the
\* stores create_car and create_booking leave.
InitStore ==
    /\ \E r1 \in {create_car(NoStores, 50)} :
       \E r2 \in {r1, create_booking(r1.st, 1, CHOOSE cu \in Customers : TRUE, 0, 2)} :
       \E r3 \in {r2, create_booking(r2.st, 1, CHOOSE cu \in Customers : TRUE, 2, 3)} :
          /\ cars = r3.st.cars
          /\ nextCarId = r3.st.nextCarId
          /\ bookings = r3.st.bookings
    /\ today = 0
    /\ ov = NoOverlapCall
    /\ rq = [p \in Procs |-> NoRequest]
    /\ file = JsonFile

DeleteBooking(booking_id) ==
    Becomes(booking_delete(State, booking_id).st)

NextStore == \E b \in BookingIds : DeleteBooking(b)

SpecStore == InitStore /\ [][NextStore]_vars

\* ------------------------------------------------------------------ claims
\* The days of the half-open range [start_date, end_date).
Days(start_date, end_date) == {d \in Dates : start_date <= d /\ d < end_date}

\* C1: for every car, any two distinct stored bookings of that car whose status
\* is pending or confirmed have ranges [start_date, end_date) without a common day.
C1_NoDoubleBooking ==
    \A i \in 1..Len(bookings), j \in 1..Len(bookings) :
        (/\ i # j
         /\ bookings[i].car_id = bookings[j].car_id
         /\ Active(bookings[i])
         /\ Active(bookings[j]))
        => Days(bookings[i].start_date, bookings[i].end_date)
             \cap Days(bookings[j].start_date, bookings[j].end_date) = {}

\* Two active bookings of one car are stored.
C1_Witness ==
    \E i \in 1..Len(bookings), j \in 1..Len(bookings) :
        /\ i # j
        /\ bookings[i].car_id = bookings[j].car_id
        /\ Active(bookings[i])
        /\ Active(bookings[j])

\* C2: _dates_overlap(s1, e1, s2, e2) is true iff s1 < e2 and e1 > s2; for
\* s1 < e1 and s2 < e2 it gives the same answer with the two ranges swapped, and
\* it is false whenever e1 <= s2 or e2 <= s1 (touching ranges do not overlap).
C2_OverlapPredicate ==
    ov.called =>
        /\ ov.result <=> (ov.start1 < ov.end2 /\ ov.end1 > ov.start2)
        /\ (ov.start1 < ov.end1 /\ ov.start2 < ov.end2) =>
              /\ ov.result <=> _dates_overlap(ov.start2, ov.end2, ov.start1, ov.end1)
              /\ ov.result <=> (Days(ov.start1, ov.end1)
                                  \cap Days(ov.start2, ov.end2) # {})
              /\ (ov.end1 <= ov.start2 \/ ov.end2 <= ov.start1) => ~ov.result

\* The predicate was applied to two touching ranges and said no.
C2_Witness ==
    /\ ov.called
    /\ ov.start1 < ov.end1
    /\ ov.end1 = ov.start2
    /\ ov.start2 < ov.end2
    /\ ~ov.result

\* A car record with this id is stored / the stored car with this id.
CarStored(car_id) == \E i \in 1..Len(cars) : cars[i].id = car_id
StoredCar(car_id) == cars[CHOOSE i \in 1..Len(cars) : cars[i].id = car_id]

\* An active stored booking of the car shares a day with [start_date, end_date).
ActiveClash(car_id, start_date, end_date) ==
    \E i \in 1..Len(bookings) :
        /\ bookings[i].car_id = car_id
        /\ Active(bookings[i])
        /\ Days(start_date, end_date)
             \cap Days(bookings[i].start_date, bookings[i].end_date) # {}

\* C3: for every car id and query range, _is_car_available returns false iff the
\* store holds a pending or confirmed booking of that car whose range shares a
\* day with the query range (and so it returns true otherwise).
C3_AvailableIffNoActiveOverlap ==
    \A c \in CarIds, s \in Dates, e \in Dates :
        s < e =>
            LET a == _is_car_available(bookings, today, c, s, e) IN
            /\ a \in {"True", "False"}
            /\ a = "False" <=> ActiveClash(c, s, e)

\* Dates A < B < C < D and A < B < C.
Quads == {q \in Dates \X Dates \X Dates \X Dates :
              q[1] < q[2] /\ q[2] < q[3] /\ q[3] < q[4]}
Triples == {q \in Dates \X Dates \X Dates : q[1] < q[2] /\ q[2] < q[3]}

\* C4: when create_booking for a car over [A,C) has succeeded, a following
\* create_booking for the same car over [B,D), A < B < C < D, fails with "Car is
\* not available for the selected dates" and leaves the stores as they were.
C4_OverlappingRequestConflicts ==
    \A c \in CarIds, cu \in Customers, cu2 \in Customers, q \in Quads :
        LET r1 == create_booking(State, c, cu, q[1], q[3]) IN
        r1.res = Ok =>
            LET r2 == create_booking(r1.st, c, cu2, q[2], q[4]) IN
            /\ r2.res = NotAvailable
            /\ r2.ret = <<>>
            /\ r2.st = r1.st

\* The booking over [A,C) was the last one stored, and the request over [B,D)
\* is refused in this state.
C4_Witness ==
    /\ bookings # <<>>
    /\ LET b == bookings[Len(bookings)] IN
       /\ b.status = "pending"
       /\ \E q \in Quads, cu \in Customers :
            /\ b.start_date = q[1]
            /\ b.end_date = q[3]
            /\ create_booking(State, b.car_id, cu, q[2], q[4]).res = NotAvailable

\* C5 as stated: when create_booking for a car over [A,B) has succeeded, an
\* immediately following create_booking for the same car over [B,C), B < C,
\* succeeds, and both bookings are stored as pending.
C5_TouchingRequestSucceeds ==
    \A c \in CarIds, cu \in Customers, cu2 \in Customers, q \in Triples :
        LET r1 == create_booking(State, c, cu, q[1], q[2]) IN
        r1.res = Ok =>
            LET r2 == create_booking(r1.st, c, cu2, q[2], q[3]) IN
            /\ r2.res = Ok
            /\ r2.st.bookings = bookings \o r1.ret \o r2.ret
            /\ r1.ret[1].status = "pending"
            /\ r2.ret[1].status = "pending"
            /\ r2.ret[1].start_date = r1.ret[1].end_date

\* C5 as amended: when create_booking for a car over [A,B) has succeeded and no
\* pending or confirmed booking of the car shares a day with [B,C), B < C, an
\* immediately following create_booking for the same car over [B,C) succeeds, and
\* both bookings are stored as pending.
C5_TouchingRequestSucceedsWhenFree ==
    \A c \in CarIds, cu \in Customers, cu2 \in Customers, q \in Triples :
        LET r1 == create_booking(State, c, cu, q[1], q[2]) IN
        (r1.res = Ok /\ ~ActiveClash(c, q[2], q[3])) =>
            LET r2 == create_booking(r1.st, c, cu2, q[2], q[3]) IN
            /\ r2.res = Ok
            /\ r2.st.bookings = bookings \o r1.ret \o r2.ret
            /\ r1.ret[1].status = "pending"
            /\ r2.ret[1].status = "pending"
            /\ r2.ret[1].start_date = r1.ret[1].end_date

\* Two pending bookings of one car are stored one after the other, the second
\* starting on the day the first ends.
C5_Witness ==
    /\ Len(bookings) >= 2
    /\ LET b1 == bookings[Len(bookings) - 1]
           b2 == bookings[Len(bookings)] IN
       /\ b1.car_id = b2.car_id
       /\ b1.status = "pending"
       /\ b2.status = "pending"
       /\ b2.start_date = b1.end_date

\* C6: when create_booking for a car over a range has succeeded and that booking
\* is then cancelled with cancel_booking, a create_booking for the same car over
\* the same range succeeds.
C6_RebookAfterCancel ==
    \A c \in CarIds, cu \in Customers, cu2 \in Customers, s \in Dates, e \in Dates :
        LET r1 == create_booking(State, c, cu, s, e) IN
        r1.res = Ok =>
            LET r2 == cancel_booking(r1.st, r1.ret[1].id) IN
            /\ r2.res = Ok
            /\ LET r3 == create_booking(r2.st, c, cu2, s, e) IN
               /\ r3.res = Ok
               /\ r3.ret[1].start_date = s
               /\ r3.ret[1].end_date = e
               /\ r3.ret[1].car_id = c

\* A cancelled booking and, stored right after it, a pending booking of the same
\* car over the same range.
C6_Witness ==
    /\ Len(bookings) >= 2
    /\ LET b1 == bookings[Len(bookings) - 1]
           b2 == bookings[Len(bookings)] IN
       /\ b1.status = "cancelled"
       /\ b2.status = "pending"
       /\ b1.car_id = b2.car_id
       /\ b1.start_date = b2.start_date
       /\ b1.end_date = b2.end_date

\* C7: create_booking with a car id that is not in the car store fails with "Car
\* not found" and changes neither the booking store nor the car store.
C7_UnknownCarNotFound ==
    \A c \in CarIds, cu \in Customers, s \in Dates, e \in Dates :
        ~CarStored(c) =>
            LET r == create_booking(State, c, cu, s, e) IN
            /\ r.res = CarNotFound
            /\ r.ret = <<>>
            /\ r.st.bookings = bookings
            /\ r.st.cars = cars

\* A car was deleted while another is stored: a request for the deleted car's id,
\* on dates that are free, is refused with "Car not found".
C7_Witness ==
    \E c \in CarIds, c2 \in CarIds, cu \in Customers :
        /\ ~CarStored(c)
        /\ c < nextCarId
        /\ CarStored(c2)
        /\ create_booking(State, c, cu, today, today + 1).res = CarNotFound
        /\ create_booking(State, c2, cu, today, today + 1).res = Ok

\* C8: the booking a successful create_booking returns has total_cost equal to
\* the whole days from start_date to end_date times the daily_rate of the stored
\* car; a 2-day booking at daily rate 50 costs exactly 100.
C8_TotalCost ==
    \A c \in CarIds, cu \in Customers, s \in Dates, e \in Dates :
        LET r == create_booking(State, c, cu, s, e) IN
        r.res = Ok =>
            /\ r.ret[1].total_cost = Cardinality(Days(s, e)) * StoredCar(c).daily_rate
            /\ (e - s = 2 /\ StoredCar(c).daily_rate = 50) => r.ret[1].total_cost = 100

\* A 2-day booking of a car whose daily rate is 50 is stored, with its cost.
C8_Witness ==
    \E i \in 1..Len(bookings) :
        /\ bookings[i].end_date - bookings[i].start_date = 2
        /\ CarStored(bookings[i].car_id)
        /\ StoredCar(bookings[i].car_id).daily_rate = 50
        /\ bookings[i].total_cost = 100

\* C9: a successful create_booking adds exactly one booking to the booking store,
\* with status pending and the requested car id, customer and dates, returns that
\* booking, and leaves every booking stored before unchanged.
C9_CreateAddsOneBooking ==
    \A c \in CarIds, cu \in Customers, s \in Dates, e \in Dates :
        LET r == create_booking(State, c, cu, s, e) IN
        r.res = Ok =>
            /\ Len(r.ret) = 1
            /\ r.st.bookings = Append(bookings, r.ret[1])
            /\ r.ret[1].status = "pending"
            /\ r.ret[1].car_id = c
            /\ r.ret[1].customer_name = cu.name
            /\ r.ret[1].customer_email = cu.email
            /\ r.ret[1].start_date = s
            /\ r.ret[1].end_date = e
            /\ \A i \in 1..Len(bookings) : r.ret[1].id # bookings[i].id

\* A pending booking is stored behind an earlier booking, which has its own id.
C9_Witness ==
    /\ Len(bookings) >= 2
    /\ bookings[Len(bookings)].status = "pending"
    /\ bookings[Len(bookings)].id # bookings[1].id

\* The car store with the status of one car replaced.
WithStatus(data, car_id, status) ==
    [i \in 1..Len(data) |->
        IF data[i].id = car_id THEN [data[i] EXCEPT !.status = status] ELSE data[i]]

\* C10: create_booking never changes a car record (the booked car is not set to
\* rented), and its outcome does not depend on the car's status: with the car in
\* any other status the same request has the same outcome.
C10_CarStatusIndependent ==
    \A c \in CarIds, cu \in Customers, s \in Dates, e \in Dates :
        LET r == create_booking(State, c, cu, s, e) IN
        /\ r.st.cars = cars
        /\ \A status \in CarStatus :
              LET st2 == [State EXCEPT !.cars = WithStatus(cars, c, status)]
                  r2 == create_booking(st2, c, cu, s, e) IN
              /\ r2.res = r.res
              /\ r2.ret = r.ret
              /\ r2.st.bookings = r.st.bookings
              /\ r2.st.cars = st2.cars

\* A car in rented or maintenance status holds an active booking and can be
\* booked again in this state.
C10_Witness ==
    \E c \in CarIds :
        /\ CarStored(c)
        /\ StoredCar(c).status \in {"rented", "maintenance"}
        /\ \E i \in 1..Len(bookings) : bookings[i].car_id = c /\ Active(bookings[i])
        /\ \E cu \in Customers, s \in Dates, e \in Dates :
              create_booking(State, c, cu, s, e).res = Ok

\* An active stored booking of the car overlaps the requested range, valid or not
\* (start_date < its end_date and end_date > its start_date).
ActiveOverlaps(car_id, start_date, end_date) ==
    \E i \in 1..Len(bookings) :
        /\ bookings[i].car_id = car_id
        /\ Active(bookings[i])
        /\ start_date < bookings[i].end_date
        /\ end_date > bookings[i].start_date

\* C11: create_booking enforces its preconditions in order: for a car id that is
\* not stored it fails with "Car not found" whatever the dates and the bookings
\* stored for that id; for a stored car with an active booking overlapping the
\* range it fails with "Car is not available for the selected dates"; and a
\* validation failure is raised only when the car is stored and no active
\* booking overlaps the range.
C11_PreconditionOrder ==
    \A c \in CarIds, cu \in Customers, s \in Dates, e \in Dates :
        LET r == create_booking(State, c, cu, s, e) IN
        /\ ~CarStored(c) => r.res = CarNotFound
        /\ (CarStored(c) /\ ActiveOverlaps(c, s, e)) => r.res = NotAvailable
        /\ r.res = ValidationError => (CarStored(c) /\ ~ActiveOverlaps(c, s, e))

\* C12 as stated: create_booking with end_date <= start_date or with start_date
\* before today fails with the validation error and writes nothing; and every
\* stored booking has end_date > start_date and total_cost > 0.
C12_InvalidDatesRejected ==
    /\ \A c \in CarIds, cu \in Customers, s \in Dates, e \in Dates :
          (e <= s \/ s < today) =>
              LET r == create_booking(State, c, cu, s, e) IN
              /\ r.res = ValidationError
              /\ r.ret = <<>>
              /\ r.st = State
    /\ \A i \in 1..Len(bookings) :
          /\ bookings[i].end_date > bookings[i].start_date
          /\ bookings[i].total_cost > 0

\* A stored booking of the car, of any status, has a start_date before today.
StartedBooking(car_id) ==
    \E i \in 1..Len(bookings) :
        bookings[i].car_id = car_id /\ bookings[i].start_date < today

\* C12 amended: create_booking with end_date <= start_date or with start_date
\* before today always fails and writes nothing.  The failure is "Car not
\* found" when the car is not stored; for a stored car it is the validation
\* error when some stored booking of the car has a start_date before today;
\* otherwise "Car is not available for the selected dates" when an active
\* booking of the car overlaps the range; otherwise the validation error.  And
\* every stored booking has end_date > start_date and total_cost > 0.
C12_InvalidDatesRejectedAfterChecks ==
    /\ \A c \in CarIds, cu \in Customers, s \in Dates, e \in Dates :
          (e <= s \/ s < today) =>
              LET r == create_booking(State, c, cu, s, e) IN
              /\ r.ret = <<>>
              /\ r.st = State
              /\ r.res = IF ~CarStored(c) THEN CarNotFound
                         ELSE IF StartedBooking(c) THEN ValidationError
                         ELSE IF ActiveOverlaps(c, s, e) THEN NotAvailable
                         ELSE ValidationError
    /\ \A i \in 1..Len(bookings) :
          /\ bookings[i].end_date > bookings[i].start_date
          /\ bookings[i].total_cost > 0

\* On day 1 a stored car with a stored booking that has not started is asked for
\* an inverted range, an empty range and a range that starts yesterday, all free
\* of active bookings: each request is refused with the validation error.
C12_Witness ==
    \E c \in CarIds, cu \in Customers :
        /\ today = 1
        /\ CarStored(c)
        /\ \E i \in 1..Len(bookings) : bookings[i].car_id = c
        /\ \A i \in 1..Len(bookings) : bookings[i].start_date >= today
        /\ ~ActiveOverlaps(c, 0, 1) /\ ~ActiveOverlaps(c, 1, 1) /\ ~ActiveOverlaps(c, 2, 1)
        /\ create_booking(State, c, cu, 2, 1).res = ValidationError
        /\ create_booking(State, c, cu, 1, 1).res = ValidationError
        /\ create_booking(State, c, cu, 0, 1).res = ValidationError

\* A booking record with this id is stored / the first stored booking with this id.
BookingStored(booking_id) == \E i \in 1..Len(bookings) : bookings[i].id = booking_id
StoredBooking(booking_id) == bookings[IndexOfId(bookings, booking_id)]

\* C13: get_booking returns the stored booking with the id when one is stored and
\* fails with "Booking not found" when none is; either way the stores are left
\* as they were.
C13_GetBooking ==
    \A b \in BookingIds :
        LET r == get_booking(State, b) IN
        /\ r.st = State
        /\ BookingStored(b) => (r.res = Ok /\ r.ret = <<StoredBooking(b)>>)
        /\ ~BookingStored(b) => (r.res = BookingNotFound /\ r.ret = <<>>)

\* C14: cancel_booking on a stored booking returns that booking with status
\* cancelled and every other field as stored, and the stores after it differ
\* from the stores before only in that booking's status; on an id that is not
\* stored it fails with "Booking not found" and changes nothing.
C14_CancelBooking ==
    \A b \in BookingIds :
        LET r == cancel_booking(State, b) IN
        /\ BookingStored(b) =>
              /\ r.res = Ok
              /\ r.ret = <<[StoredBooking(b) EXCEPT !.status = "cancelled"]>>
              /\ r.st = [State EXCEPT !.bookings[IndexOfId(bookings, b)] = r.ret[1]]
        /\ ~BookingStored(b) =>
              /\ r.res = BookingNotFound
              /\ r.ret = <<>>
              /\ r.st = State

\* C15: cancel_booking on a stored booking whose status is already cancelled
\* succeeds and leaves the stores exactly as they are.
C15_CancelIdempotent ==
    \A b \in BookingIds :
        (BookingStored(b) /\ StoredBooking(b).status = "cancelled") =>
            LET r == cancel_booking(State, b) IN
            /\ r.res = Ok
            /\ r.ret = <<StoredBooking(b)>>
            /\ r.st = State

\* C16: in every step the stored bookings keep their place and id, a booking's
\* status changes only from pending or confirmed to cancelled (so a cancelled
\* booking stays cancelled), and no booking, old or new, comes to be confirmed
\* or completed.
C16_StatusTransitions ==
    [][/\ Len(bookings') >= Len(bookings)
       /\ \A i \in 1..Len(bookings) :
             /\ bookings'[i].id = bookings[i].id
             /\ bookings'[i].status # bookings[i].status =>
                   /\ bookings[i].status \in {"pending", "confirmed"}
                   /\ bookings'[i].status = "cancelled"
       /\ \A i \in 1..Len(bookings') :
             bookings'[i].status \in {"confirmed", "completed"} =>
                 /\ i <= Len(bookings)
                 /\ bookings[i].status = bookings'[i].status]_vars

\* A booking was cancelled and a booking made after it is pending; cancelling the
\* first again leaves it cancelled.
C16_Witness ==
    /\ Len(bookings) = 2
    /\ bookings[1].status = "cancelled"
    /\ bookings[2].status = "pending"
    /\ cancel_booking(State, bookings[1].id).st.bookings[1].status = "cancelled"

\* C17: list_available_cars_by_date returns exactly the stored cars in available
\* status for which _is_car_available is true, in file order, and changes no
\* stored data; so no returned car is rented or in maintenance or has an active
\* booking sharing a day with the range, and every other available car is returned.
C17_ListAvailableCarsByDate ==
    \A s \in Dates, e \in Dates :
        s < e =>
            LET r == list_available_cars_by_date(State, s, e) IN
            /\ r.res = Ok
            /\ r.st = State
            /\ r.ret = SelectSeq(cars, LAMBDA car :
                           /\ car.status = "available"
                           /\ _is_car_available(bookings, today, car.id, s, e) = "True")
            /\ r.ret = SelectSeq(cars, LAMBDA car :
                           car.status = "available" /\ ~ActiveClash(car.id, s, e))

\* C18 as stated: when create_booking has succeeded, the same request issued
\* again (same car id, customer and dates) succeeds too and stores a second
\* booking of the same car and range.
C18_ReissueCreatesDuplicate ==
    \A c \in CarIds, cu \in Customers, s \in Dates, e \in Dates :
        LET r1 == create_booking(State, c, cu, s, e) IN
        r1.res = Ok =>
            LET r2 == create_booking(r1.st, c, cu, s, e) IN
            /\ r2.res = Ok
            /\ r2.st.bookings = Append(r1.st.bookings, r2.ret[1])
            /\ r2.ret[1].car_id = c
            /\ r2.ret[1].start_date = s
            /\ r2.ret[1].end_date = e

\* C18 amended: when create_booking has succeeded, the same request issued again
\* at once fails with "Car is not available for the selected dates", because the
\* booking just stored is pending and overlaps it, and stores nothing: the
\* stores stay as the first request left them, with one booking of that request.
C18_ReissueRefused ==
    \A c \in CarIds, cu \in Customers, s \in Dates, e \in Dates :
        LET r1 == create_booking(State, c, cu, s, e) IN
        r1.res = Ok =>
            LET r2 == create_booking(r1.st, c, cu, s, e) IN
            /\ r2.res = NotAvailable
            /\ r2.ret = <<>>
            /\ r2.st = r1.st
            /\ Len(r1.st.bookings) = Len(bookings) + 1

\* The last stored booking is pending, its car is stored, it is the only stored
\* booking of its car and range, and the request that made it is refused in
\* this state.
C18_Witness ==
    /\ bookings # <<>>
    /\ LET b == bookings[Len(bookings)] IN
       /\ b.status = "pending"
       /\ CarStored(b.car_id)
       /\ \A i \in 1..(Len(bookings) - 1) :
             ~(/\ bookings[i].car_id = b.car_id
               /\ bookings[i].start_date = b.start_date
               /\ bookings[i].end_date = b.end_date)
       /\ \E cu \in Customers :
             /\ cu.name = b.customer_name
             /\ create_booking(State, b.car_id, cu, b.start_date, b.end_date).res
                  = NotAvailable

\* The state a second issue of a request runs against: the stores the first
\* issue left, on the same or a later day.
Reissued(st, day) == [st EXCEPT !.today = day]
SameStores(st1, st2) == st1.cars = st2.cars /\ st1.bookings = st2.bookings
LaterDays == {d \in Dates : d >= today}
\* The instants of a first and of a later call.
Instants == 1..(MaxStamp + 1)

\* get_car, list_all_cars, list_available_cars, delete_car, get_booking,
\* cancel_booking and list_available_cars_by_date issued a second time with the
\* same arguments leave the stores as the first issue left them.
C19_ReadsDeleteCancelSafe ==
    \A d \in LaterDays :
        /\ \A c \in CarIds :
              /\ LET r1 == get_car(State, c) IN
                 SameStores(get_car(Reissued(r1.st, d), c).st, r1.st)
              /\ LET r1 == delete_car(State, c) IN
                 SameStores(delete_car(Reissued(r1.st, d), c).st, r1.st)
        /\ LET r1 == list_all_cars(State) IN
           SameStores(list_all_cars(Reissued(r1.st, d)).st, r1.st)
        /\ LET r1 == list_available_cars(State) IN
           SameStores(list_available_cars(Reissued(r1.st, d)).st, r1.st)
        /\ \A b \in BookingIds :
              /\ LET r1 == get_booking(State, b) IN
                 SameStores(get_booking(Reissued(r1.st, d), b).st, r1.st)
              /\ LET r1 == cancel_booking(State, b) IN
                 SameStores(cancel_booking(Reissued(r1.st, d), b).st, r1.st)
        /\ \A s \in Dates, e \in Dates :
              LET r1 == list_available_cars_by_date(State, s, e) IN
              SameStores(list_available_cars_by_date(Reissued(r1.st, d), s, e).st, r1.st)

\* C19 as stated: every operation other than create_booking, issued a second
\* time with the same arguments, leaves the stored cars and bookings as they
\* were after the first issue; create_car and update_car_status included.
C19_ReissueSafe ==
    /\ C19_ReadsDeleteCancelSafe
    /\ \A d \in LaterDays, rate \in RateInputs :
          LET r1 == create_car(State, rate) IN
          SameStores(create_car(Reissued(r1.st, d), rate).st, r1.st)
    /\ \A d \in LaterDays, c \in CarIds, status \in CarStatus :
          \A t1 \in Instants, t2 \in Instants :
              t1 < t2 =>
                  LET r1 == update_car_status(State, c, status, t1) IN
                  SameStores(update_car_status(Reissued(r1.st, d), c, status, t2).st, r1.st)

\* C19 amended: the reads, delete_car and cancel_booking are safe to issue again;
\* update_car_status issued again at a later instant leaves the stores as the
\* first issue left them except for the updated_at of that car, which becomes
\* the later instant; create_car issued again after a success stores one more
\* car under another id.
C19_ReissueSafeButCreateCar ==
    /\ C19_ReadsDeleteCancelSafe
    /\ \A d \in LaterDays, c \in CarIds, status \in CarStatus :
          \A t1 \in Instants, t2 \in Instants :
              t1 < t2 =>
                  LET r1 == update_car_status(State, c, status, t1)
                      r2 == update_car_status(Reissued(r1.st, d), c, status, t2) IN
                  /\ r2.st.bookings = r1.st.bookings
                  /\ r2.res = r1.res
                  /\ r1.res = "None" => r2.st.cars = r1.st.cars
                  /\ r1.res = Ok =>
                        /\ r1.ret[1].updated_at = t1
                        /\ r2.st.cars # r1.st.cars
                        /\ r2.st.cars = [r1.st.cars EXCEPT
                               ![IndexOfId(r1.st.cars, c)].updated_at = t2]
    /\ \A d \in LaterDays, rate \in RateInputs :
          LET r1 == create_car(State, rate)
              r2 == create_car(Reissued(r1.st, d), rate) IN
          /\ r2.res = r1.res
          /\ r2.st.bookings = r1.st.bookings
          /\ r1.res = ValidationError => r2.st.cars = r1.st.cars
          /\ r1.res = Ok =>
                /\ r2.st.cars = Append(r1.st.cars, r2.ret[1])
                /\ r2.ret[1].id # r1.ret[1].id
                /\ r2.ret[1].daily_rate = r1.ret[1].daily_rate

\* A car was deleted, another had its status updated, a booking was cancelled and
\* the day has changed: deleting, updating and cancelling again are accepted
\* here, and only the update changes a record (its updated_at).
C19_Witness ==
    \E c \in CarIds, c2 \in CarIds, b \in BookingIds :
        /\ today = 1
        /\ c < nextCarId /\ ~CarStored(c)
        /\ CarStored(c2) /\ StoredCar(c2).updated_at # 0
        /\ BookingStored(b)
        /\ StoredBooking(b).status = "cancelled"
        /\ StoredBooking(b).start_date >= today
        /\ delete_car(State, c).st = State
        /\ cancel_booking(State, b).res = Ok
        /\ cancel_booking(State, b).st = State
        /\ update_car_status(State, c2, StoredCar(c2).status, MaxStamp + 1).st.cars # cars

\* C20: the availability check and the save of create_booking are separate
\* steps.  Whenever two requests for the same car with overlapping ranges have
\* both passed the availability check and neither has begun to save, each holds
\* a pending booking under an id of its own, and the two saves, run one after
\* the other, store both bookings, which share a day; had the second request
\* run after the first one's save, it would have been refused.
C20_RaceDoubleBooks ==
    \A p \in Procs, q \in Procs :
        (/\ p # q
         /\ rq[p].pc = "save"
         /\ rq[q].pc = "save"
         /\ rq[p].car_id = rq[q].car_id
         /\ _dates_overlap(rq[p].start_date, rq[p].end_date,
                           rq[q].start_date, rq[q].end_date)) =>
            LET b1 == rq[p].booking[1]
                b2 == rq[q].booking[1]
                st1 == booking_save(State, b1)
                st2 == booking_save(st1, b2) IN
            /\ b1.status = "pending" /\ b2.status = "pending"
            /\ b1.id # b2.id
            /\ b1.car_id = b2.car_id
            /\ Days(b1.start_date, b1.end_date) \cap Days(b2.start_date, b2.end_date) # {}
            /\ st2.bookings = Append(Append(bookings, b1), b2)
            /\ create_booking(st1, rq[q].car_id, rq[q].customer[1],
                              rq[q].start_date, rq[q].end_date).res = NotAvailable

\* Both requests have returned their booking, and the store holds the two
\* bookings: pending, of the same car, with a day in common.
C20_Witness ==
    /\ \A p \in Procs : rq[p].pc = "done" /\ rq[p].res = Ok
    /\ Len(bookings) = 2
    /\ bookings[1].id # bookings[2].id
    /\ bookings[1].car_id = bookings[2].car_id
    /\ bookings[1].status = "pending" /\ bookings[2].status = "pending"
    /\ Days(bookings[1].start_date, bookings[1].end_date)
         \cap Days(bookings[2].start_date, bookings[2].end_date) # {}
    /\ \E p \in Procs : rq[p].booking = <<bookings[1]>>
    /\ \E p \in Procs : rq[p].booking = <<bookings[2]>>

\* C21: update_car_status on a car id that is not stored returns None and
\* changes nothing; on a stored car it returns that car with the given status,
\* stores it in the car's place, and leaves every other car and every booking as
\* it was, the active bookings of the car included.
C21_UpdateCarStatus ==
    \A c \in CarIds, status \in CarStatus, now \in Stamps :
        LET r == update_car_status(State, c, status, now) IN
        /\ ~CarStored(c) =>
              /\ r.res = "None"
              /\ r.ret = <<>>
              /\ r.st = State
        /\ CarStored(c) =>
              /\ r.res = Ok
              /\ r.ret[1].id = c
              /\ r.ret[1].status = status
              /\ r.ret[1].daily_rate = StoredCar(c).daily_rate
              /\ r.st.bookings = bookings
              /\ Len(r.st.cars) = Len(cars)
              /\ \A i \in 1..Len(cars) :
                    r.st.cars[i] = IF cars[i].id = c THEN r.ret[1] ELSE cars[i]

\* A car with an active booking was put in maintenance or rented status and the
\* booking is still active; the id of a car that was deleted gets None.
C21_Witness ==
    \E c \in CarIds, c2 \in CarIds, now \in Stamps :
        /\ CarStored(c)
        /\ StoredCar(c).status \in {"rented", "maintenance"}
        /\ StoredCar(c).updated_at # 0
        /\ \E i \in 1..Len(bookings) : bookings[i].car_id = c /\ Active(bookings[i])
        /\ c2 < nextCarId
        /\ ~CarStored(c2)
        /\ update_car_status(State, c2, "rented", now).res = "None"

\* C22: delete_car returns True exactly when a car record with the id was
\* stored, and then the car store is what it was without that record; otherwise
\* it returns False and changes nothing.  It never changes the booking store:
\* after it every booking is stored with its status, get_booking and
\* cancel_booking answer for every booking id as they did before, and
\* create_booking for the car id fails with "Car not found".
C22_DeleteCar ==
    \A c \in CarIds :
        LET r == delete_car(State, c) IN
        /\ r.res \in {"True", "False"}
        /\ r.res = "True" <=> CarStored(c)
        /\ r.res = "True" =>
              /\ Len(r.st.cars) < Len(cars)
              /\ r.st.cars = SelectSeq(cars, LAMBDA car : car.id # c)
        /\ r.res = "False" => r.st = State
        /\ r.st.bookings = bookings
        /\ \A b \in BookingIds :
              LET g1 == get_booking(State, b)
                  g2 == get_booking(r.st, b)
                  x1 == cancel_booking(State, b)
                  x2 == cancel_booking(r.st, b) IN
              /\ g2.res = g1.res /\ g2.ret = g1.ret
              /\ x2.res = x1.res /\ x2.ret = x1.ret
              /\ x2.st.bookings = x1.st.bookings
        /\ \A cu \in Customers, s \in Dates, e \in Dates :
              LET n == create_booking(r.st, c, cu, s, e) IN
              n.res = CarNotFound /\ n.st = r.st

\* A car was deleted while a pending booking of it is stored: the booking is
\* returned by get_booking, cancel_booking cancels it, deleting the car again
\* returns False, and a new booking for the car is refused with "Car not found".
C22_Witness ==
    \E c \in CarIds, b \in BookingIds, cu \in Customers :
        /\ c < nextCarId
        /\ ~CarStored(c)
        /\ BookingStored(b)
        /\ StoredBooking(b).car_id = c
        /\ StoredBooking(b).status = "pending"
        /\ get_booking(State, b).res = Ok
        /\ cancel_booking(State, b).res = Ok
        /\ cancel_booking(State, b).ret[1].status = "cancelled"
        /\ delete_car(State, c).res = "False"
        /\ create_booking(State, c, cu, MaxDate - 1, MaxDate).res = CarNotFound

\* The routes of the car store answer a car id that is not stored with 404.
C23_CarRoutes ==
    \A c \in CarIds, status \in CarStatus, now \in Stamps :
        /\ route_get_car(State, c).status
             = IF CarStored(c) THEN HTTP_200_OK ELSE HTTP_404_NOT_FOUND
        /\ route_update_car_status(State, c, status, now).status
             = IF CarStored(c) THEN HTTP_200_OK ELSE HTTP_404_NOT_FOUND
        /\ route_delete_car(State, c).status
             = IF CarStored(c) THEN HTTP_204_NO_CONTENT ELSE HTTP_404_NOT_FOUND

\* C23 as stated: every failure because a car or booking is absent is answered
\* with 404, create_booking for a car that is not stored included, and every
\* validation failure and every "not available" failure with 400.
C23_NotFoundIs404 ==
    /\ C23_CarRoutes
    /\ \A c \in CarIds, cu \in Customers, s \in Dates, e \in Dates :
          LET r == create_booking(State, c, cu, s, e)
              a == route_create_booking(State, c, cu, s, e) IN
          /\ r.res = CarNotFound => a.status = HTTP_404_NOT_FOUND
          /\ r.res \in {NotAvailable, ValidationError} => a.status = HTTP_400_BAD_REQUEST
    /\ \A b \in BookingIds :
          /\ get_booking(State, b).res = BookingNotFound =>
                route_get_booking(State, b).status = HTTP_404_NOT_FOUND
          /\ cancel_booking(State, b).res = BookingNotFound =>
                route_cancel_booking(State, b).status = HTTP_404_NOT_FOUND

\* C23 amended: the car routes and the get and cancel routes of bookings answer
\* an absent car or booking with 404 (get and cancel answer every failure of the
\* service with 404); the create route of bookings answers every failure of the
\* service with 400: "Car not found" as well as "not available" and a
\* validation failure; a success is answered with 201, 200 or 204.
C23_RouteStatus ==
    /\ C23_CarRoutes
    /\ \A c \in CarIds, cu \in Customers, s \in Dates, e \in Dates :
          LET r == create_booking(State, c, cu, s, e)
              a == route_create_booking(State, c, cu, s, e) IN
          /\ a.st = r.st
          /\ r.res = Ok => a.status = HTTP_201_CREATED
          /\ r.res \in {CarNotFound, NotAvailable, ValidationError} =>
                a.status = HTTP_400_BAD_REQUEST
          /\ ~CarStored(c) => a.status = HTTP_400_BAD_REQUEST
    /\ \A b \in BookingIds :
          LET g == get_booking(State, b)
              x == cancel_booking(State, b) IN
          /\ route_get_booking(State, b).status
               = IF g.res = Ok THEN HTTP_200_OK ELSE HTTP_404_NOT_FOUND
          /\ route_cancel_booking(State, b).status
               = IF x.res = Ok THEN HTTP_200_OK ELSE HTTP_404_NOT_FOUND
          /\ route_cancel_booking(State, b).st = x.st
          /\ ~BookingStored(b) =>
                /\ route_get_booking(State, b).status = HTTP_404_NOT_FOUND
                /\ route_cancel_booking(State, b).status = HTTP_404_NOT_FOUND

\* One car is stored with a booking and another was deleted: a booking request
\* for the deleted car is answered with 400, as is one for the booked days; a
\* booking id that is not stored is answered with 404 and the stored one with
\* 200; the deleted car is answered with 404.
C23_Witness ==
    \E c \in CarIds, c2 \in CarIds, cu \in Customers, b \in BookingIds, b2 \in BookingIds :
        /\ c < nextCarId /\ ~CarStored(c)
        /\ CarStored(c2)
        /\ BookingStored(b)
        /\ StoredBooking(b).car_id = c2
        /\ Active(StoredBooking(b))
        /\ ~BookingStored(b2)
        /\ create_booking(State, c, cu, today, today + 1).res = CarNotFound
        /\ route_create_booking(State, c, cu, today, today + 1).status = HTTP_400_BAD_REQUEST
        /\ create_booking(State, c2, cu, StoredBooking(b).start_date,
                          StoredBooking(b).end_date).res = NotAvailable
        /\ route_create_booking(State, c2, cu, StoredBooking(b).start_date,
                                StoredBooking(b).end_date).status = HTTP_400_BAD_REQUEST
        /\ route_get_booking(State, b2).status = HTTP_404_NOT_FOUND
        /\ route_get_booking(State, b).status = HTTP_200_OK
        /\ route_get_car(State, c).status = HTTP_404_NOT_FOUND

\* C24: every stored booking (each was stored by a successful create_booking)
\* is readable on every later day: get_booking and cancel_booking on its id
\* succeed, and for its car _is_car_available answers true or false,
\* create_booking with valid dates raises no validation error, and
\* list_available_cars_by_date returns a list.
C24_StoredBookingStaysReadable ==
    \A i \in 1..Len(bookings) :
        LET b == bookings[i] IN
        /\ get_booking(State, b.id).res = Ok
        /\ get_booking(State, b.id).ret = <<b>>
        /\ cancel_booking(State, b.id).res = Ok
        /\ \A s \in Dates, e \in Dates :
              s < e =>
                  /\ _is_car_available(bookings, today, b.car_id, s, e)
                       \in {"True", "False"}
                  /\ list_available_cars_by_date(State, s, e).res = Ok
                  /\ \A cu \in Customers :
                        s >= today =>
                            create_booking(State, b.car_id, cu, s, e).res
                              \in {Ok, NotAvailable, CarNotFound}

\* C25: no acknowledged write is lost when requests interleave.  Once every
\* request has returned successfully, the booking store holds every booking a
\* create_booking request returned as created, and every booking a
\* cancel_booking request returned as cancelled is stored with status
\* cancelled.
C25_NoAcknowledgedWriteLost ==
    (\A p \in Procs : rq[p].pc = "done" /\ rq[p].res = Ok) =>
        \A p \in Procs :
            LET i == IndexOfId(bookings, rq[p].booking[1].id) IN
            /\ i # 0
            /\ rq[p].op = "cancel_booking" => bookings[i].status = "cancelled"
====
